---- MODULE Spec2Model ----
(***************************************************************************)
(* Document synchronisation of DocumentRAGAgent (src/agent/doc_agent.py):  *)
(* the embedding manifest (EmbeddingManifestManager), the PDF folder, the   *)
(* vector index and the pass _synchronize_documents, one action per step    *)
(* between two external calls.                                              *)
(***************************************************************************)
EXTENDS Integers, Sequences, FiniteSets, TLC

VARIABLES
    docs,       \* the docs folder: path -> content of the PDF, or NoFile
    file,       \* embedding_manifest.json: [exists, data]
    manifest,   \* manifest_manager.manifest, the in-memory manifest
    index,      \* the vector index: source_file (base name) -> number of vectors
    pc,         \* position of the agent inside __init__/_synchronize_documents
    plan,       \* new_files, modified_files, deleted_files of the running pass
    queue,      \* files_to_re_embed, in iteration order
    cur,        \* loop state of the EMBED loop: [k, n, i]
    log,        \* external calls issued by the running pass, in order
    run,        \* observations about the running pass
    prev,       \* observations about the pass before it and the edits since
    folder,     \* whether the docs folder exists
    loader,     \* an EmbeddingManifestManager under construction (_load_manifest)
    pure,       \* the input and the results of _clean_text / _get_document_splits
    agent,      \* a constructed agent answering questions (ask)
    procs       \* two agents synchronising against the same manifest file

\* the variables the synchronisation pass does not touch
aside == <<loader, pure, agent, procs>>

vars == <<docs, file, manifest, index, pc, plan, queue, cur, log, run, prev, folder, aside>>

-----------------------------------------------------------------------------
(* Bounds *)
MaxPasses == 2
MaxChunks == 41
MaxLoads == 2
MaxLen == 4
MaxAsks == 2
MaxEdits == 1
MaxPages == 25

(* Program constants *)
PineconeBatchSize == 20
ChunkSize == 1500
ChunkOverlap == 200
BatchSize == 10
MinDots == 5

IndexName == "carbon-multiagent"
OtherIndex == "carbon-rag"
IndexNames == {IndexName, OtherIndex}

DocPaths == {"docs/a.pdf", "docs/b.pdf"}
Contents == {"c1", "c2"}
NoFile == "none"

\* os.path.basename
Basename(p) ==
    CASE p = "docs/a.pdf" -> "a.pdf"
      [] p = "docs/b.pdf" -> "b.pdf"
      [] p = "docs/sub/a.pdf" -> "a.pdf"
      [] OTHER -> p
BaseNames == {Basename(p) : p \in DocPaths}

\* hashlib.sha256 over the file's bytes: distinct contents, distinct digests
Sha256(c) ==
    CASE c = "c1" -> "h1"
      [] c = "c2" -> "h2"
Digests == {Sha256(c) : c \in Contents}

\* the number of chunks a non-empty parse result splits into
ChunkCounts == {0, MaxChunks}
\* what _parse_pdf_with_upstage and _get_document_splits make of one file
ParseResults ==
    {[empty |-> TRUE, chunks |-> 0]} \cup {[empty |-> FALSE, chunks |-> n] : n \in ChunkCounts}

EmptyMap == [p \in {} |-> "h1"]
NoManifest == [x \in {} |-> EmptyMap]
SubMaps == UNION {[S -> Digests] : S \in SUBSET DocPaths}

Min(a, b) == IF a < b THEN a ELSE b

RECURSIVE SumOver(_, _)
SumOver(f, S) ==
    IF S = {} THEN 0
    ELSE LET x == CHOOSE y \in S : TRUE IN f[x] + SumOver(f, S \ {x})

\* all orders a Python set can be iterated in
Perms(S) ==
    {q \in [1..Cardinality(S) -> S] : \A i, j \in 1..Cardinality(S) : i # j => q[i] # q[j]}

-----------------------------------------------------------------------------
(* EmbeddingManifestManager *)

\* the manifest file: absent, or text that is malformed JSON ("corrupt"), a
\* legacy mapping file -> hash ("flat", in flat) or a mapping index -> files
\* ("ns", in data)
NoDataFile == [exists |-> FALSE, kind |-> "ns", data |-> NoManifest, flat |-> EmptyMap]
CorruptFile == [exists |-> TRUE, kind |-> "corrupt", data |-> NoManifest, flat |-> EmptyMap]
FlatFile(sub) == [exists |-> TRUE, kind |-> "flat", data |-> NoManifest, flat |-> sub]

\* save: json.dump of the whole dict over the file
Save(m) == [exists |-> TRUE, kind |-> "ns", data |-> m, flat |-> EmptyMap]

\* return {self.index_name: {}}
FreshManifest(name) == [x \in {name} |-> EmptyMap]

\* the top level of the parsed file has entries (the truth value of data)
HasEntries(f) == IF f.kind = "flat" THEN DOMAIN f.flat # {} ELSE DOMAIN f.data # {}

\* isinstance(list(data.values())[0], dict)
FirstValueIsDict(f) == f.kind = "ns"

\* any file with entries taken for a legacy file
IsLegacy_AnyData(f) == HasEntries(f)

\* if data and not isinstance(list(data.values())[0], dict)
IsLegacy(f) == HasEntries(f) /\ ~FirstValueIsDict(f)

\* migrated_data = {"carbon-rag": data, self.index_name: {}}: in a dict
\* display the later of two equal keys wins
Migrated(old, name) ==
    [x \in {OtherIndex, name} |-> IF x = name THEN EmptyMap ELSE old]

\* malformed JSON passed on to the caller
OnCorrupt_Raise(f, name) ==
    [manifest |-> NoManifest, file |-> f, path |-> "corrupt", raised |-> TRUE]

\* except (json.JSONDecodeError, IndexError): return {self.index_name: {}}
OnCorrupt(f, name) ==
    [manifest |-> FreshManifest(name), file |-> f, path |-> "corrupt", raised |-> FALSE]

\* _load_manifest of a manager for index name: the manifest it returns, the
\* file it leaves, the branch it took
LoadResult(f, name) ==
    IF ~f.exists
    THEN [manifest |-> FreshManifest(name), file |-> f, path |-> "missing", raised |-> FALSE]
    ELSE IF f.kind = "corrupt"
    THEN OnCorrupt(f, name)
    ELSE IF IsLegacy(f)
    THEN [manifest |-> Migrated(f.flat, name), file |-> Save(Migrated(f.flat, name)),
          path |-> "migrated", raised |-> FALSE]
    ELSE IF name \notin DOMAIN f.data
    THEN [manifest |-> [x \in DOMAIN f.data \cup {name} |->
                          IF x = name THEN EmptyMap ELSE f.data[x]],
          file |-> f, path |-> "added", raised |-> FALSE]
    ELSE [manifest |-> f.data, file |-> f, path |-> "loaded", raised |-> FALSE]

\* the manifest a manager of the active index holds after its construction
LoadManifest(f) == LoadResult(f, IndexName).manifest

\* get_processed_files
GetProcessedFiles(m) ==
    IF IndexName \in DOMAIN m THEN DOMAIN m[IndexName] ELSE {}

\* get_file_hash
GetFileHash(m, p) ==
    IF IndexName \in DOMAIN m /\ p \in DOMAIN m[IndexName] THEN m[IndexName][p] ELSE "None"

\* update_file_hash
UpdateFileHash(m, p, h) ==
    LET old == IF IndexName \in DOMAIN m THEN m[IndexName] ELSE EmptyMap
        new == [x \in DOMAIN old \cup {p} |-> IF x = p THEN h ELSE old[x]]
    IN [x \in DOMAIN m \cup {IndexName} |-> IF x = IndexName THEN new ELSE m[x]]

\* remove_files that removes nothing
RemoveFiles_Keep(m, ps) == m

\* remove_files
RemoveFiles(m, ps) ==
    IF IndexName \in DOMAIN m
    THEN [m EXCEPT ![IndexName] = [x \in DOMAIN m[IndexName] \ ps |-> m[IndexName][x]]]
    ELSE m

\* remove_files and update_file_hash writing the file at once
Unsaved_Flushed(f, m) == Save(m)

\* remove_files and update_file_hash change self.manifest only: the manifest
\* file stays as it is until save() is called
Unsaved(f, m) == f

\* the whole manifest replaced by an empty one for the active index
ResetIndex_All(m) == [x \in {IndexName} |-> EmptyMap]

\* self.manifest_manager.manifest[self.index_name] = {}
ResetIndex(m) ==
    [x \in DOMAIN m \cup {IndexName} |-> IF x = IndexName THEN EmptyMap ELSE m[x]]

-----------------------------------------------------------------------------
(* DocumentRAGAgent *)

\* _calculate_file_hash
CalculateFileHash(d, p) == Sha256(d[p])

\* the scan going down into the folders below docs
AllPdfFiles_Recursive(d) == {p \in DOMAIN d : d[p] # NoFile}

\* docs_folder.glob("*.pdf"): the PDFs that are direct children of the folder
AllPdfFiles(d) == {p \in DocPaths : d[p] # NoFile}

\* {str(p) for p in docs_folder.glob("*.pdf")}: Path.glob over a folder that
\* does not exist yields nothing and raises nothing
ScanFolder(exists, d) == IF exists THEN AllPdfFiles(d) ELSE {}

\* index_stats.get('total_vector_count', 0)
VectorCount(ix) == SumOver(ix, DOMAIN ix)

\* the check with the count test inverted
ShouldReset_Inverted(known, count) == known # {} /\ count # 0

\* if processed_files_in_manifest and vector_count == 0
ShouldReset(known, count) == known # {} /\ count = 0

\* a failed stats query taken for a count of zero
ResetDecided_DefaultZero(answers, known, count) ==
    ShouldReset(known, IF answers THEN count ELSE 0)

\* the try block of the inconsistency check: an exception of
\* describe_index_stats skips the test, and the except clause only prints
ResetDecided(answers, known, count) == answers /\ ShouldReset(known, count)

\* every file on disk taken as new
NewFiles_All(known, onDisk) == onDisk

NewFiles(known, onDisk) == {p \in onDisk : p \notin known}

\* every known file on disk taken as modified, without comparing hashes
ModifiedFiles_NoHash(known, onDisk, m, d) == {p \in known : p \in onDisk}

ModifiedFiles(known, onDisk, m, d) ==
    {p \in known : p \in onDisk /\ GetFileHash(m, p) # CalculateFileHash(d, p)}

\* no recorded file taken as deleted
DeletedFiles_None(known, onDisk) == {}

DeletedFiles(known, onDisk) == known \ onDisk

FilesToReEmbed(new, modified) == new \cup modified

\* only the deleted files purged
FilesToDeleteFromDb_DeletedOnly(modified, deleted) == deleted

FilesToDeleteFromDb(modified, deleted) == modified \cup deleted

\* the purge filtering on the full paths
PurgeKeys_FullPath(files) == files

\* [os.path.basename(f) for f in files_to_delete_from_db]: the values of
\* source_file the delete request filters on
PurgeKeys(files) == {Basename(f) : f \in files}

\* filename = os.path.basename(pdf_path), which _get_document_splits puts into
\* the metadata of every chunk as source_file
UploadKey(p) == Basename(p)

\* index.delete(filter={"source_file": {"$in": filenames}})
IndexDelete(ix, names) == [b \in DOMAIN ix |-> IF b \in names THEN 0 ELSE ix[b]]

\* vectorstore.add_documents(batch)
IndexAdd(ix, name, n) == [ix EXCEPT ![name] = @ + n]

NoPlan == [new |-> {}, modified |-> {}, deleted |-> {}]

\* html_content of the files parsed so far, named by the bytes it was parsed from
Parsed(done, p, c) == [x \in DOMAIN done \cup {p} |-> IF x = p THEN c ELSE done[x]]
NoCur == [k |-> 0, n |-> 0, i |-> 0]
NoRun == [pass |-> 0, file0 |-> NoDataFile, index0 |-> [b \in BaseNames |-> 0],
          stats |-> "none", reset |-> FALSE, writes |-> 0,
          skipped |-> {}, failed |-> {}, failedAfter |-> 0, purgeFailed |-> {},
          touched |-> {}, parsed |-> [p \in {} |-> NoFile]]
NoPrev == [outcome |-> "none", skipped |-> {}, failed |-> {}, failedAfter |-> 0,
           purgeFailed |-> {}, touched |-> {}]

Call(op, names, off, n, ok) == [op |-> op, names |-> names, off |-> off, n |-> n, ok |-> ok]

-----------------------------------------------------------------------------
\* the manifest files a pass may find: none, an empty top level, or another
\* index's entries with or without a sub-mapping of the active index
InitFiles ==
    {NoDataFile, Save(NoManifest)} \cup
    {Save([x \in S |-> IF x = OtherIndex THEN [p \in {"docs/a.pdf"} |-> "h1"] ELSE sub]) :
        S \in {{OtherIndex}, IndexNames}, sub \in SubMaps}

\* the vector index holds vectors of every document or of none
InitIndexes == {[b \in BaseNames |-> n] : n \in {0, 1}}

NoLoader == [name |-> IndexName, loads |-> 0, file0 |-> NoDataFile, paths |-> <<>>,
             raised |-> FALSE]
NoPure == [step |-> "none", x |-> <<>>, y |-> <<>>, z |-> <<>>, name |-> "a.pdf",
           chunk_size |-> 0, chunk_overlap |-> 0, chunks |-> <<>>]
NoAgent == [variant |-> "none", rag_chain |-> FALSE, llm |-> FALSE, calls |-> <<>>]
NoProcs == [agents |-> <<>>, writer |-> 0, written |-> NoManifest, edits |-> 0]

\* nothing but the synchronisation pass is running
AsideIdle ==
    /\ loader = NoLoader
    /\ pure = NoPure
    /\ agent = NoAgent
    /\ procs = NoProcs

\* without the folder there is no PDF in it
InitDocs(exists) ==
    IF exists THEN [DocPaths -> Contents \cup {NoFile}] ELSE {[p \in DocPaths |-> NoFile]}

Init ==
    /\ folder \in BOOLEAN
    /\ docs \in InitDocs(folder)
    /\ file \in InitFiles
    /\ AsideIdle
    /\ manifest = NoManifest
    /\ index \in InitIndexes
    /\ pc = "idle"
    /\ plan = NoPlan
    /\ queue = <<>>
    /\ cur = NoCur
    /\ log = <<>>
    /\ run = NoRun
    /\ prev = NoPrev

-----------------------------------------------------------------------------
(* DocumentRAGAgent.__init__ up to the call of _synchronize_documents: a new
   agent loads the manifest file into memory. *)
StartPass ==
    /\ pc \in {"idle", "done", "raised"}
    /\ run.pass < MaxPasses
    /\ manifest' = LoadManifest(file)
    /\ file' = LoadResult(file, IndexName).file
    /\ prev' = [outcome |-> pc, skipped |-> run.skipped, failed |-> run.failed,
                failedAfter |-> run.failedAfter, purgeFailed |-> run.purgeFailed,
                touched |-> run.touched]
    /\ run' = [NoRun EXCEPT !.pass = run.pass + 1, !.file0 = file, !.index0 = index]
    /\ plan' = NoPlan
    /\ queue' = <<>>
    /\ cur' = NoCur
    /\ log' = <<>>
    /\ pc' = "check"
    /\ UNCHANGED <<docs, index, folder, aside>>

(* 1. the inconsistency check: describe_index_stats answers or raises; the
   reset of the active index is saved at once. *)
CheckStats ==
    /\ pc = "check"
    /\ \E answers \in BOOLEAN :
         LET known == GetProcessedFiles(manifest)
             count == VectorCount(index)
             reset == ResetDecided(answers, known, count)
         IN /\ manifest' = IF reset THEN ResetIndex(manifest) ELSE manifest
            /\ file' = IF reset THEN Save(manifest') ELSE file
            /\ log' = log \o <<Call("stats", {}, 0, count, answers)>>
                          \o (IF reset THEN <<Call("save", {}, 0, 0, TRUE)>> ELSE <<>>)
            /\ run' = [run EXCEPT !.stats = IF answers THEN "answered" ELSE "raised",
                                  !.reset = reset,
                                  !.writes = IF reset THEN @ + 1 ELSE @]
    /\ pc' = "diff"
    /\ UNCHANGED <<docs, index, plan, queue, cur, prev, folder, aside>>

\* the diff without its early return
AfterDiff_NoReturn(reEmbed, deleteFromDb) == "purge"

\* the step that follows the diff
AfterDiff(reEmbed, deleteFromDb) ==
    IF reEmbed = {} /\ deleteFromDb = {} THEN "done" ELSE "purge"

(* 2. the diff of the manifest against the folder, and the early return. *)
Diff ==
    /\ pc = "diff"
    /\ LET known == GetProcessedFiles(manifest)
           onDisk == ScanFolder(folder, docs)
           new == NewFiles(known, onDisk)
           modified == ModifiedFiles(known, onDisk, manifest, docs)
           deleted == DeletedFiles(known, onDisk)
       IN /\ plan' = [new |-> new, modified |-> modified, deleted |-> deleted]
          /\ \E qn \in Perms(new), qm \in Perms(modified) : queue' = qn \o qm
          /\ pc' = AfterDiff(FilesToReEmbed(new, modified), FilesToDeleteFromDb(modified, deleted))
    /\ UNCHANGED <<docs, file, manifest, index, cur, log, run, prev, folder, aside>>

\* the step that follows the file at position k of files_to_re_embed
AfterFile(k, q) == IF k < Len(q) THEN "parse" ELSE "persist"

\* the error of index.delete ending the pass
AfterPurge_Abort(ok, q) == IF ok THEN AfterFile(0, q) ELSE "raised"

\* what follows _delete_vectors_by_filename: its except clause only prints, so
\* the pass goes on whether index.delete succeeded or not
AfterPurge(ok, q) == AfterFile(0, q)

(* 3., 4. _delete_vectors_by_filename for modified + deleted (the error of
   index.delete is swallowed), then remove_files(deleted_files). *)
Purge ==
    /\ pc = "purge"
    /\ LET covered == FilesToDeleteFromDb(plan.modified, plan.deleted)
           names == PurgeKeys(covered)
       IN IF names = {}
          THEN /\ UNCHANGED <<index, log, run>>
               /\ pc' = AfterPurge(TRUE, queue)
          ELSE \E ok \in BOOLEAN :
                 /\ index' = IF ok THEN IndexDelete(index, names) ELSE index
                 /\ log' = Append(log, Call("delete", names, 0, 0, ok))
                 /\ run' = [run EXCEPT !.purgeFailed = IF ok THEN {} ELSE covered]
                 /\ pc' = AfterPurge(ok, queue)
    /\ manifest' = IF plan.deleted # {} THEN RemoveFiles(manifest, plan.deleted) ELSE manifest
    /\ file' = Unsaved(file, manifest')
    /\ cur' = [NoCur EXCEPT !.k = 1]
    /\ UNCHANGED <<docs, plan, queue, prev, folder, aside>>

\* break instead of continue
AfterEmptyParse_Break(k, q) == "persist"

\* what an empty parse result leads to: continue
AfterEmptyParse(k, q) == AfterFile(k, q)

(* 5. _parse_pdf_with_upstage for the file at position k: empty content, or
   content that _get_document_splits turns into n chunks. *)
Parse ==
    /\ pc = "parse"
    /\ LET p == queue[cur.k]
       IN \E r \in ParseResults :
            /\ log' = Append(log, Call("parse", {Basename(p)}, 0, r.chunks, ~r.empty))
            /\ IF r.empty
               THEN /\ pc' = AfterEmptyParse(cur.k, queue)
                    /\ cur' = [NoCur EXCEPT !.k = cur.k + 1]
                    /\ run' = [run EXCEPT !.skipped = @ \cup {p}]
               ELSE /\ pc' = IF r.chunks > 0 THEN "upload" ELSE "record"
                    /\ cur' = [k |-> cur.k, n |-> r.chunks, i |-> 0]
                    /\ run' = [run EXCEPT !.parsed = Parsed(@, p, docs[p])]
    /\ UNCHANGED <<docs, file, manifest, index, plan, queue, prev, folder, aside>>

\* the exception swallowed, the file recorded all the same
AfterAddFailure_Swallowed == "record"

\* what an exception of add_documents leads to: it leaves the pass
AfterAddFailure == "raised"

(* vectorstore.add_documents(documents[i:i + pinecone_batch_size]) *)
Upload ==
    /\ pc = "upload"
    /\ LET p == queue[cur.k]
           n == Min(PineconeBatchSize, cur.n - cur.i)
       IN \E ok \in BOOLEAN :
            /\ log' = Append(log, Call("add", {UploadKey(p)}, cur.i, n, ok))
            /\ IF ok
               THEN /\ index' = IndexAdd(index, UploadKey(p), n)
                    /\ cur' = [cur EXCEPT !.i = @ + PineconeBatchSize]
                    /\ pc' = IF cur.i + PineconeBatchSize < cur.n THEN "upload" ELSE "record"
                    /\ run' = run
               ELSE /\ index' = index
                    /\ cur' = cur
                    /\ pc' = AfterAddFailure
                    /\ run' = [run EXCEPT !.failed = @ \cup {p},
                                          !.failedAfter = cur.i \div PineconeBatchSize]
    /\ UNCHANGED <<docs, file, manifest, plan, queue, prev, folder, aside>>

(* file_hash = _calculate_file_hash(pdf_path); update_file_hash(...) *)
Record ==
    /\ pc = "record"
    /\ LET p == queue[cur.k]
       IN manifest' = UpdateFileHash(manifest, p, CalculateFileHash(docs, p))
    /\ file' = Unsaved(file, manifest')
    /\ cur' = [NoCur EXCEPT !.k = cur.k + 1]
    /\ pc' = AfterFile(cur.k, queue)
    /\ UNCHANGED <<docs, index, plan, queue, log, run, prev, folder, aside>>

(* 6. manifest_manager.save() *)
Persist ==
    /\ pc = "persist"
    /\ file' = Save(manifest)
    /\ log' = Append(log, Call("save", {}, 0, 0, TRUE))
    /\ run' = [run EXCEPT !.writes = @ + 1]
    /\ pc' = "done"
    /\ UNCHANGED <<docs, manifest, index, plan, queue, cur, prev, folder, aside>>

(* Between two passes the folder changes: a PDF is written or removed (one
   net change per file). *)
WriteFile ==
    /\ pc \in {"done", "raised"}
    /\ folder
    /\ run.pass < MaxPasses
    /\ \E p \in DocPaths, c \in Contents :
         /\ p \notin run.touched
         /\ docs[p] # c
         /\ docs' = [docs EXCEPT ![p] = c]
         /\ run' = [run EXCEPT !.touched = @ \cup {p}]
    /\ UNCHANGED <<file, manifest, index, pc, plan, queue, cur, log, prev, folder, aside>>

RemoveFile ==
    /\ pc \in {"done", "raised"}
    /\ run.pass < MaxPasses
    /\ \E p \in DocPaths :
         /\ p \notin run.touched
         /\ docs[p] # NoFile
         /\ docs' = [docs EXCEPT ![p] = NoFile]
         /\ run' = [run EXCEPT !.touched = @ \cup {p}]
    /\ UNCHANGED <<file, manifest, index, pc, plan, queue, cur, log, prev, folder, aside>>

(* Between two passes the docs folder is removed with all it holds. *)
RemoveFolder ==
    /\ pc \in {"done", "raised"}
    /\ run.pass < MaxPasses
    /\ folder
    /\ run.touched = {}
    /\ folder' = FALSE
    /\ docs' = [p \in DocPaths |-> NoFile]
    /\ run' = [run EXCEPT !.touched = DocPaths]
    /\ UNCHANGED <<file, manifest, index, pc, plan, queue, cur, log, prev, aside>>

Next ==
    \/ StartPass
    \/ CheckStats
    \/ Diff
    \/ Purge
    \/ Parse
    \/ Upload
    \/ Record
    \/ Persist
    \/ WriteFile
    \/ RemoveFile
    \/ RemoveFolder

Spec == Init /\ [][Next]_vars

(* While the pass uploads the chunks of a file, the file is written again in
   the folder. *)
LiveWrite ==
    /\ pc \in {"upload", "record"}
    /\ procs.edits < MaxEdits
    /\ \E c \in Contents :
         /\ docs[queue[cur.k]] # c
         /\ docs' = [docs EXCEPT ![queue[cur.k]] = c]
    /\ procs' = [procs EXCEPT !.edits = @ + 1]
    /\ UNCHANGED <<file, manifest, index, pc, plan, queue, cur, log, run, prev, folder,
                   loader, pure, agent>>

\* the passes of a first deployment: no manifest file, an empty index
InitFresh ==
    /\ Init
    /\ folder
    /\ file = NoDataFile
    /\ VectorCount(index) = 0

\* the passes of a first deployment and after it
SpecFresh == InitFresh /\ [][Next]_vars

NextLive ==
    \/ StartPass
    \/ CheckStats
    \/ Diff
    \/ Purge
    \/ Parse
    \/ Upload
    \/ Record
    \/ Persist
    \/ WriteFile
    \/ RemoveFile
    \/ RemoveFolder
    \/ LiveWrite

SpecLive == InitFresh /\ [][NextLive]_vars

\* a PDF in a folder below docs that has the base name of a PDF in docs
NestedPath == "docs/sub/a.pdf"

\* the docs folder d with content c at the nested path
WithNested(d, c) == [p \in DocPaths \cup {NestedPath} |-> IF p = NestedPath THEN c ELSE d[p]]

\* the passes of a first deployment over a docs folder that may hold a folder
\* of its own
InitFlat ==
    /\ folder = TRUE
    /\ docs \in {WithNested(d, c) : d \in InitDocs(TRUE), c \in Contents \cup {NoFile}}
    /\ file = NoDataFile
    /\ AsideIdle
    /\ manifest = NoManifest
    /\ index = [b \in BaseNames |-> 0]
    /\ pc = "idle"
    /\ plan = NoPlan
    /\ queue = <<>>
    /\ cur = NoCur
    /\ log = <<>>
    /\ run = NoRun
    /\ prev = NoPrev

SpecFlat == InitFlat /\ [][Next]_vars

TypeOK ==
    /\ pc \in {"idle", "check", "diff", "purge", "parse", "upload", "record", "persist", "done", "raised"}
    /\ \A b \in BaseNames : index[b] \in Nat

-----------------------------------------------------------------------------
(* EmbeddingManifestManager.__init__ on its own: managers of either index name
   are constructed one after the other over the same manifest file. *)

\* no synchronisation pass is running and the docs folder is empty
SyncIdle ==
    /\ folder = TRUE
    /\ docs = [p \in DocPaths |-> NoFile]
    /\ index = [b \in BaseNames |-> 0]
    /\ pc = "idle"
    /\ plan = NoPlan
    /\ queue = <<>>
    /\ cur = NoCur
    /\ log = <<>>
    /\ run = NoRun
    /\ prev = NoPrev

syncVars == <<docs, index, pc, plan, queue, cur, log, run, prev, folder>>

\* the manifest files a manager may find
LoadFiles ==
    {NoDataFile, CorruptFile}
        \cup {FlatFile(sub) : sub \in SubMaps \ {EmptyMap}}
        \cup {Save(m) : m \in UNION {[S -> SubMaps] : S \in SUBSET IndexNames}}

InitLoad ==
    /\ SyncIdle
    /\ file \in LoadFiles
    /\ manifest = NoManifest
    /\ loader = NoLoader
    /\ pure = NoPure
    /\ agent = NoAgent
    /\ procs = NoProcs

(* self.manifest = self._load_manifest() *)
LoadStep ==
    /\ loader.loads < MaxLoads
    /\ \E name \in IndexNames :
         LET r == LoadResult(file, name)
         IN /\ manifest' = r.manifest
            /\ file' = r.file
            /\ loader' = [name |-> name, loads |-> loader.loads + 1, file0 |-> file,
                          paths |-> Append(loader.paths, r.path), raised |-> r.raised]
    /\ UNCHANGED <<syncVars, pure, agent, procs>>

NextLoad == LoadStep

SpecLoad == InitLoad /\ [][NextLoad]_vars

-----------------------------------------------------------------------------
(* _clean_text and _get_document_splits on their own.  A text is a sequence of
   characters, each character a one-character string; the Hangul syllables of
   the patterns are written by their code points. *)

Whitespace == {" ", "\n", "\t"}
Digit == {"0", "1", "2", "3", "4", "5", "6", "7", "8", "9"}
\* the character class [\d\.-]
NumberChar == Digit \cup {".", "-"}

\* the alternatives (그림|표|Figure|Table)
TagWords ==
    << <<"U+ADF8", "U+B9BC">>, <<"U+D45C">>, <<"F", "i", "g", "u", "r", "e">>,
       <<"T", "a", "b", "l", "e">> >>
\* the alternatives (페이지|Page)
PageWords == << <<"U+D398", "U+C774", "U+C9C0">>, <<"P", "a", "g", "e">> >>

\* the literal w stands in text at position i
MatchAt(text, i, w) ==
    /\ i + Len(w) - 1 <= Len(text)
    /\ SubSeq(text, i, i + Len(w) - 1) = w

\* the position after the first alternative of words that stands at i, or 0
AfterWord(text, i, words) ==
    IF \E k \in 1..Len(words) : MatchAt(text, i, words[k])
    THEN LET k == CHOOSE j \in 1..Len(words) :
                      /\ MatchAt(text, i, words[j])
                      /\ \A h \in 1..(j - 1) : ~MatchAt(text, i, words[h])
         IN i + Len(words[k])
    ELSE 0

\* the position after the longest run of characters of class from i on
RECURSIVE SpanEnd(_, _, _)
SpanEnd(text, i, class) ==
    IF i <= Len(text) /\ text[i] \in class THEN SpanEnd(text, i + 1, class) ELSE i

\* \[(그림|표|Figure|Table)\s*[\d\.-]+\] at position i: the position after the
\* match, or 0
TagEnd(text, i) ==
    IF i <= Len(text) /\ text[i] = "[" /\ AfterWord(text, i + 1, TagWords) > 0
    THEN LET j == SpanEnd(text, AfterWord(text, i + 1, TagWords), Whitespace)
             k == SpanEnd(text, j, NumberChar)
         IN IF k > j /\ k <= Len(text) /\ text[k] = "]" THEN k + 1 ELSE 0
    ELSE 0

\* (페이지|Page)\s+\d+ at position i
PageEnd(text, i) ==
    IF AfterWord(text, i, PageWords) > 0
    THEN LET w == AfterWord(text, i, PageWords)
             j == SpanEnd(text, w, Whitespace)
             k == SpanEnd(text, j, Digit)
         IN IF j > w /\ k > j THEN k ELSE 0
    ELSE 0

\* \.{5,} at position i
DotsEnd(text, i) ==
    LET k == SpanEnd(text, i, {"."})
    IN IF k - i >= MinDots THEN k ELSE 0

\* \s+ at position i
SpaceEnd(text, i) ==
    LET k == SpanEnd(text, i, Whitespace)
    IN IF k > i THEN k ELSE 0

PatternEnd(pattern, text, i) ==
    CASE pattern = "tag" -> TagEnd(text, i)
      [] pattern = "page" -> PageEnd(text, i)
      [] pattern = "dots" -> DotsEnd(text, i)
      [] pattern = "space" -> SpaceEnd(text, i)

\* re.sub(pattern, repl, text): the matches are found from left to right, never
\* overlapping, and the result is not searched again
RECURSIVE ReSub(_, _, _, _)
ReSub(pattern, repl, text, i) ==
    IF i > Len(text) THEN <<>>
    ELSE LET e == PatternEnd(pattern, text, i)
         IN IF e > 0 THEN repl \o ReSub(pattern, repl, text, e)
            ELSE <<text[i]>> \o ReSub(pattern, repl, text, i + 1)

\* str.strip()
RECURSIVE Strip(_)
Strip(text) ==
    IF text = <<>> THEN <<>>
    ELSE IF text[1] \in Whitespace THEN Strip(Tail(text))
    ELSE IF text[Len(text)] \in Whitespace THEN Strip(SubSeq(text, 1, Len(text) - 1))
    ELSE text

CleanText_KeepPages(text) ==
    LET t1 == ReSub("tag", <<>>, text, 1)
        t3 == ReSub("dots", <<>>, t1, 1)
    IN Strip(ReSub("space", <<" ">>, t3, 1))

\* _clean_text
CleanText(text) ==
    LET t1 == ReSub("tag", <<>>, text, 1)
        t2 == ReSub("page", <<>>, t1, 1)
        t3 == ReSub("dots", <<>>, t2, 1)
    IN Strip(ReSub("space", <<" ">>, t3, 1))

\* separators=["\n\n", "\n", ". ", " ", ""]
Separators == << <<"\n", "\n">>, <<"\n">>, <<".", " ">>, <<" ">>, <<>> >>

\* re.search(separator, text)
Occurs(text, sep) == \E i \in 1..Len(text) : MatchAt(text, i, sep)

\* the separator _split_text picks: the first of seps that is "" or occurs
SeparatorIndex(text, seps) ==
    IF \E k \in 1..Len(seps) : seps[k] = <<>> \/ Occurs(text, seps[k])
    THEN CHOOSE k \in 1..Len(seps) :
             /\ seps[k] = <<>> \/ Occurs(text, seps[k])
             /\ \A h \in 1..(k - 1) : seps[h] # <<>> /\ ~Occurs(text, seps[h])
    ELSE Len(seps)

\* the separators left for the pieces that are still too long
NewSeparators(text, seps) ==
    LET k == SeparatorIndex(text, seps)
    IN IF seps[k] # <<>> /\ Occurs(text, seps[k]) THEN SubSeq(seps, k + 1, Len(seps))
       ELSE <<>>

\* re.split with the separator kept at the start of the piece that follows it
RECURSIVE SplitKeep(_, _, _, _)
SplitKeep(text, sep, i, piece) ==
    IF i > Len(text) THEN <<piece>>
    ELSE IF MatchAt(text, i, sep) THEN <<piece>> \o SplitKeep(text, sep, i + Len(sep), sep)
    ELSE SplitKeep(text, sep, i + 1, Append(piece, text[i]))

\* [s for s in splits if s != ""]
NonEmpty(pieces) == SelectSeq(pieces, LAMBDA s : s # <<>>)

SplitWithRegex_DropSeparator(text, sep) ==
    IF sep # <<>>
    THEN NonEmpty([i \in 1..Len(SplitKeep(text, sep, 1, <<>>)) |->
                       Strip(SplitKeep(text, sep, 1, <<>>)[i])])
    ELSE [i \in 1..Len(text) |-> <<text[i]>>]

\* _split_text_with_regex(text, separator, keep_separator=True)
SplitWithRegex(text, sep) ==
    IF sep # <<>> THEN NonEmpty(SplitKeep(text, sep, 1, <<>>))
    ELSE [i \in 1..Len(text) |-> <<text[i]>>]

RECURSIVE Concat(_)
Concat(pieces) ==
    IF pieces = <<>> THEN <<>> ELSE Head(pieces) \o Concat(Tail(pieces))

\* sum of the lengths of the pieces held in current_doc (the separator the
\* pieces are joined by is "")
Total(pieces) == Len(Concat(pieces))

\* _join_docs: the joined and stripped text as a list of one, none when empty
JoinDocs(pieces) ==
    IF Strip(Concat(pieces)) = <<>> THEN <<>> ELSE <<Strip(Concat(pieces))>>

\* the while loop of _merge_splits: pieces leave current_doc from the front
RECURSIVE DropFront(_, _, _, _)
DropFront(current, len, size, overlap) ==
    IF Total(current) > overlap \/ (Total(current) + len > size /\ Total(current) > 0)
    THEN DropFront(Tail(current), len, size, overlap)
    ELSE current

\* _merge_splits(splits, "")
RECURSIVE MergeSplits(_, _, _, _, _)
MergeSplits(splits, k, current, size, overlap) ==
    IF k > Len(splits) THEN JoinDocs(current)
    ELSE LET d == splits[k]
         IN IF Total(current) + Len(d) > size /\ current # <<>>
            THEN JoinDocs(current)
                     \o MergeSplits(splits, k + 1,
                                    Append(DropFront(current, Len(d), size, overlap), d),
                                    size, overlap)
            ELSE MergeSplits(splits, k + 1, Append(current, d), size, overlap)

\* RecursiveCharacterTextSplitter._split_text(text, separators)
RECURSIVE SplitText(_, _, _, _)
RECURSIVE SplitLoop(_, _, _, _, _, _)
SplitLoop(splits, k, good, seps, size, overlap) ==
    IF k > Len(splits)
    THEN IF good # <<>> THEN MergeSplits(good, 1, <<>>, size, overlap) ELSE <<>>
    ELSE IF Len(splits[k]) < size
    THEN SplitLoop(splits, k + 1, Append(good, splits[k]), seps, size, overlap)
    ELSE (IF good # <<>> THEN MergeSplits(good, 1, <<>>, size, overlap) ELSE <<>>)
             \o (IF seps = <<>> THEN <<splits[k]>>
                 ELSE SplitText(splits[k], seps, size, overlap))
             \o SplitLoop(splits, k + 1, <<>>, seps, size, overlap)

SplitText(text, seps, size, overlap) ==
    SplitLoop(SplitWithRegex(text, seps[SeparatorIndex(text, seps)]), 1, <<>>,
              NewSeparators(text, seps), size, overlap)

\* _get_document_splits: one Document per chunk, each with the metadata of doc
GetDocumentSplits(html_content, source_filename, chunk_size, chunk_overlap) ==
    LET cleaned_content == CleanText(html_content)
        texts == SplitText(cleaned_content, Separators, chunk_size, chunk_overlap)
    IN [i \in 1..Len(texts) |->
            [page_content |-> texts[i], source_file |-> source_filename]]

\* the words the parsed texts of the model are made of
Lexemes ==
    { <<"P", "a", "g", "e">>, <<" ">>, <<"1">>, <<".">>, <<".", ".", ".", ".", ".">>,
      <<"[">>, <<"F", "i", "g", "u", "r", "e">>, <<"]">> }

\* the texts of at most MaxLen words
Texts == {Concat(ws) : ws \in UNION {[1..n -> Lexemes] : n \in 0..MaxLen}}

\* the pass calls _get_document_splits with chunk_size and chunk_overlap of its
\* own; a caller with short chunks is the second setting
ShortChunkSize == 8
ShortChunkOverlap == 2
ChunkSettings ==
    { [chunk_size |-> ChunkSize, chunk_overlap |-> ChunkOverlap],
      [chunk_size |-> ShortChunkSize, chunk_overlap |-> ShortChunkOverlap] }

InitText ==
    /\ SyncIdle
    /\ file = NoDataFile
    /\ manifest = NoManifest
    /\ loader = NoLoader
    /\ agent = NoAgent
    /\ procs = NoProcs
    /\ \E x \in Texts : pure = [NoPure EXCEPT !.step = "input", !.x = x]

(* cleaned = self._clean_text(text) *)
Clean ==
    /\ pure.step = "input"
    /\ pure' = [pure EXCEPT !.step = "cleaned", !.y = CleanText(pure.x)]
    /\ UNCHANGED <<syncVars, file, manifest, loader, agent, procs>>

(* self._clean_text(cleaned) *)
CleanAgain ==
    /\ pure.step = "cleaned"
    /\ pure' = [pure EXCEPT !.step = "recleaned", !.z = CleanText(pure.y)]
    /\ UNCHANGED <<syncVars, file, manifest, loader, agent, procs>>

(* documents = self._get_document_splits(html_content, name, chunk_size, chunk_overlap),
   which the pass calls for the parse results that are not empty *)
Split ==
    /\ pure.step = "input"
    /\ pure.x # <<>>
    /\ \E c \in ChunkSettings, b \in BaseNames :
         pure' = [pure EXCEPT !.step = "split", !.name = b,
                              !.chunk_size = c.chunk_size,
                              !.chunk_overlap = c.chunk_overlap,
                              !.chunks = GetDocumentSplits(pure.x, b, c.chunk_size,
                                                           c.chunk_overlap)]
    /\ UNCHANGED <<syncVars, file, manifest, loader, agent, procs>>

NextText == Clean \/ CleanAgain \/ Split

SpecText == InitText /\ [][NextText]_vars

-----------------------------------------------------------------------------
(* ask of a constructed agent, in the variant of src/agent/doc_agent.py and in
   the variant of src/app/services/document_service.py. *)

Variants == {"doc_agent", "document_service"}
Questions == {"q1", "q2"}

\* what invoke does: it returns a str, a message with a content attribute or an
\* object without one, or it raises an Exception
InvokeOutcomes == {"str", "message", "object", "error"}

\* the strings ask returns in place of an answer
NoChainMessage == "rag chain not initialised"
NoLlmMessage == "llm not initialised"
LlmFailedMessage == "llm initialisation failed"
ErrorMessage == "error while generating the answer"
FailureMessages == {NoChainMessage, NoLlmMessage, LlmFailedMessage, ErrorMessage}

\* the text of the answer the model gives to question q
AnswerTo(q) ==
    CASE q = "q1" -> "answer to q1"
      [] q = "q2" -> "answer to q2"

\* what ask makes of the value invoke returned: the str itself, answer.content,
\* or str(answer)
TextOf(q, outcome) ==
    CASE outcome = "str" -> AnswerTo(q)
      [] outcome = "message" -> AnswerTo(q)
      [] outcome = "object" -> IF q = "q1" THEN "repr of answer to q1"
                               ELSE "repr of answer to q2"

Returned(text) == [raised |-> FALSE, type |-> "str", text |-> text]
Raised == [raised |-> TRUE, type |-> "none", text |-> ""]

OnInvokeError_Raise(a) == Raised

\* except Exception as e: the handler of ask
OnInvokeError(a) ==
    IF a.variant = "doc_agent" /\ ~a.llm THEN Returned(LlmFailedMessage)
    ELSE Returned(ErrorMessage)

\* the outcomes invoke can have for the agent: the chain of doc_agent.py ends in
\* StrOutputParser, the llm of document_service.py answers with any object
OutcomesOf(a) ==
    IF a.variant = "doc_agent" THEN {"str", "error"} ELSE {"message", "object", "error"}

\* ask(question), with what invoke does as outcome
Ask(a, question, outcome) ==
    IF a.variant = "doc_agent" /\ ~a.rag_chain THEN Returned(NoChainMessage)
    ELSE IF a.variant = "document_service" /\ ~a.llm THEN Returned(NoLlmMessage)
    ELSE IF outcome = "error" THEN OnInvokeError(a)
    ELSE Returned(TextOf(question, outcome))

\* the agents ask may be called on
Agents ==
    {[variant |-> v, rag_chain |-> c, llm |-> l, calls |-> <<>>] :
        v \in Variants, c \in BOOLEAN, l \in BOOLEAN}

InitAsk ==
    /\ SyncIdle
    /\ file = NoDataFile
    /\ manifest = NoManifest
    /\ loader = NoLoader
    /\ pure = NoPure
    /\ procs = NoProcs
    /\ agent \in Agents

(* answer = agent.ask(question) *)
AskStep ==
    /\ Len(agent.calls) < MaxAsks
    /\ \E q \in Questions, o \in OutcomesOf(agent) :
         agent' = [agent EXCEPT !.calls =
                       Append(@, [question |-> q, outcome |-> o, result |-> Ask(agent, q, o)])]
    /\ UNCHANGED <<syncVars, file, manifest, loader, pure, procs>>

NextAsk == AskStep

SpecAsk == InitAsk /\ [][NextAsk]_vars

-----------------------------------------------------------------------------
(* Two agents are constructed at the same time over the same manifest file,
   docs folder and vector index; each runs __init__ and its pass
   _synchronize_documents.  The steps of one agent between two accesses to what
   the agents share are one action. *)

Procs == {1, 2}

NoProc == [pc |-> "init", manifest |-> NoManifest, plan |-> NoPlan, todo |-> {},
           recorded |-> {}, saved |-> FALSE]

\* open(self.manifest_path, 'w') and json.dump(self.manifest, f): what the file
\* held is gone
Overwrite_Merge(f, m) ==
    Save([x \in DOMAIN f.data \cup DOMAIN m |->
            IF x \notin DOMAIN m THEN f.data[x]
            ELSE IF x \notin DOMAIN f.data THEN m[x]
            ELSE [q \in DOMAIN f.data[x] \cup DOMAIN m[x] |->
                    IF q \in DOMAIN m[x] THEN m[x][q] ELSE f.data[x][q]]])

Overwrite(f, m) == Save(m)

\* the manifest files the two agents may find
RaceFiles == {NoDataFile} \cup {Save([x \in {IndexName} |-> sub]) : sub \in SubMaps}

InitRace ==
    /\ folder = TRUE
    /\ docs \in InitDocs(TRUE)
    /\ index \in InitIndexes
    /\ file \in RaceFiles
    /\ manifest = NoManifest
    /\ pc = "idle"
    /\ plan = NoPlan
    /\ queue = <<>>
    /\ cur = NoCur
    /\ log = <<>>
    /\ run = NoRun
    /\ prev = NoPrev
    /\ loader = NoLoader
    /\ pure = NoPure
    /\ agent = NoAgent
    /\ procs = [NoProcs EXCEPT !.agents = [p \in Procs |-> NoProc]]

raceIdle == <<manifest, pc, plan, queue, cur, log, run, prev, folder, loader, pure, agent>>

\* agent p goes on with the record a
Goes(p, a) == [procs EXCEPT !.agents[p] = a]

\* agent p saves its manifest
Saves(p, a) == [procs EXCEPT !.agents[p] = [a EXCEPT !.saved = TRUE],
                             !.writer = p, !.written = a.manifest]

(* EmbeddingManifestManager(manifest_path, index_name) in __init__ *)
RaceLoad(p) ==
    LET a == procs.agents[p]
    IN /\ a.pc = "init"
       /\ procs' = Goes(p, [a EXCEPT !.pc = "check", !.manifest = LoadManifest(file)])
       /\ file' = LoadResult(file, IndexName).file
       /\ UNCHANGED <<docs, index, raceIdle>>

(* 1. the inconsistency check and the save of the reset *)
RaceCheck(p) ==
    LET a == procs.agents[p]
    IN /\ a.pc = "check"
       /\ \E answers \in BOOLEAN :
            LET reset == ResetDecided(answers, GetProcessedFiles(a.manifest), VectorCount(index))
                b == [a EXCEPT !.pc = "diff",
                               !.manifest = IF reset THEN ResetIndex(@) ELSE @]
            IN /\ procs' = IF reset THEN Saves(p, b) ELSE Goes(p, b)
               /\ file' = IF reset THEN Overwrite(file, b.manifest) ELSE file
       /\ UNCHANGED <<docs, index, raceIdle>>

(* 2. the diff against the folder and the early return *)
RaceDiff(p) ==
    LET a == procs.agents[p]
        known == GetProcessedFiles(a.manifest)
        onDisk == ScanFolder(folder, docs)
        new == NewFiles(known, onDisk)
        modified == ModifiedFiles(known, onDisk, a.manifest, docs)
        deleted == DeletedFiles(known, onDisk)
    IN /\ a.pc = "diff"
       /\ procs' = Goes(p, [a EXCEPT
              !.plan = [new |-> new, modified |-> modified, deleted |-> deleted],
              !.todo = FilesToReEmbed(new, modified),
              !.pc = AfterDiff(FilesToReEmbed(new, modified),
                               FilesToDeleteFromDb(modified, deleted))])
       /\ UNCHANGED <<docs, index, file, raceIdle>>

(* 3., 4. the purge of the index and remove_files *)
RacePurge(p) ==
    LET a == procs.agents[p]
        names == {Basename(f) : f \in FilesToDeleteFromDb(a.plan.modified, a.plan.deleted)}
    IN /\ a.pc = "purge"
       /\ \E ok \in BOOLEAN :
            index' = IF ok /\ names # {} THEN IndexDelete(index, names) ELSE index
       /\ procs' = Goes(p, [a EXCEPT
              !.manifest = IF a.plan.deleted # {} THEN RemoveFiles(@, a.plan.deleted) ELSE @,
              !.pc = IF a.todo = {} THEN "persist" ELSE "embed"])
       /\ UNCHANGED <<docs, file, raceIdle>>

(* 5. one file of files_to_re_embed: parsed, split, uploaded and recorded; a
   file that is gone or parses to nothing is skipped; an exception of
   add_documents leaves the pass *)
RaceEmbed(p) ==
    LET a == procs.agents[p]
    IN /\ a.pc = "embed"
       /\ \E f \in a.todo, r \in ParseResults, ok \in BOOLEAN :
            LET rest == a.todo \ {f}
                after == IF rest = {} THEN "persist" ELSE "embed"
            IN IF r.empty \/ docs[f] = NoFile
               THEN /\ ok
                    /\ procs' = Goes(p, [a EXCEPT !.todo = rest, !.pc = after])
                    /\ index' = index
               ELSE IF r.chunks > 0 /\ ~ok
               THEN /\ procs' = Goes(p, [a EXCEPT !.pc = AfterAddFailure])
                    /\ index' = index
               ELSE /\ ok
                    /\ procs' = Goes(p, [a EXCEPT
                           !.manifest = UpdateFileHash(@, f, CalculateFileHash(docs, f)),
                           !.recorded = @ \cup {f},
                           !.todo = rest, !.pc = after])
                    /\ index' = IndexAdd(index, Basename(f), r.chunks)
       /\ UNCHANGED <<docs, file, raceIdle>>

(* 6. manifest_manager.save() *)
RacePersist(p) ==
    LET a == procs.agents[p]
    IN /\ a.pc = "persist"
       /\ file' = Overwrite(file, a.manifest)
       /\ procs' = Saves(p, [a EXCEPT !.pc = "done"])
       /\ UNCHANGED <<docs, index, raceIdle>>

(* while the agents run, a PDF is written to the folder or removed from it *)
RaceEdit ==
    /\ procs.edits < MaxEdits
    /\ \E f \in DocPaths, c \in Contents \cup {NoFile} :
         /\ docs[f] # c
         /\ docs' = [docs EXCEPT ![f] = c]
    /\ procs' = [procs EXCEPT !.edits = @ + 1]
    /\ UNCHANGED <<index, file, raceIdle>>

NextRace ==
    \/ \E p \in Procs : RaceLoad(p)
    \/ \E p \in Procs : RaceCheck(p)
    \/ \E p \in Procs : RaceDiff(p)
    \/ \E p \in Procs : RacePurge(p)
    \/ \E p \in Procs : RaceEmbed(p)
    \/ \E p \in Procs : RacePersist(p)
    \/ RaceEdit

SpecRace == InitRace /\ [][NextRace]_vars

-----------------------------------------------------------------------------
(* _parse_pdf_with_upstage on its own, and what the loop of the pass makes of
   its result. *)

\* len(range(0, num_pages, batch_size)): the number of split files
NumSplits(num_pages, batch_size) == (num_pages + batch_size - 1) \div batch_size

\* what happens to one split file: the request answers with content, answers
\* without content, raises a RequestException, or its saved answer cannot be
\* read back
SplitOutcomes == {"content", "no_content", "request_error", "read_error"}

\* the split files whose answer was saved: json_files
JsonFiles(outcomes) == {k \in DOMAIN outcomes : outcomes[k] # "request_error"}

\* full_html_content, each split file's html named by the number of the file
RECURSIVE FullHtmlContent(_, _)
FullHtmlContent(outcomes, k) ==
    IF k > Len(outcomes) THEN <<>>
    ELSE (IF k \in JsonFiles(outcomes) /\ outcomes[k] = "content" THEN <<k>> ELSE <<>>)
             \o FullHtmlContent(outcomes, k + 1)

\* _parse_pdf_with_upstage: "" when the PDF cannot be opened, else what the
\* split files that answered with content add up to
ParsePdf(opens, outcomes) ==
    IF opens THEN FullHtmlContent(outcomes, 1) ELSE <<>>

\* the loop of the pass for one file whose uploads succeed: if not
\* html_content: continue, else the file is recorded
Recorded(html_content) == html_content # <<>>

\* the PDFs handed to the parser
PdfInputs ==
    {[opens |-> o, num_pages |-> n, outcomes |-> out] :
        o \in BOOLEAN, n \in 0..MaxPages,
        out \in UNION {[1..b -> SplitOutcomes] : b \in 0..NumSplits(MaxPages, BatchSize)}}

InitParse ==
    /\ SyncIdle
    /\ file = NoDataFile
    /\ manifest = NoManifest
    /\ loader = NoLoader
    /\ agent = NoAgent
    /\ procs = NoProcs
    /\ \E in \in PdfInputs :
         /\ Len(in.outcomes) = NumSplits(in.num_pages, BatchSize)
         /\ pure = [step |-> "pdf", opens |-> in.opens, num_pages |-> in.num_pages,
                    outcomes |-> in.outcomes, html_content |-> <<>>, recorded |-> FALSE]

(* html_content = self._parse_pdf_with_upstage(pdf_path, batch_size) *)
ParseFile ==
    /\ pure.step = "pdf"
    /\ pure' = [pure EXCEPT !.step = "parsed",
                            !.html_content = ParsePdf(pure.opens, pure.outcomes)]
    /\ UNCHANGED <<syncVars, file, manifest, loader, agent, procs>>

(* the rest of the loop body for the file *)
EmbedFile ==
    /\ pure.step = "parsed"
    /\ pure' = [pure EXCEPT !.step = "embedded", !.recorded = Recorded(pure.html_content)]
    /\ UNCHANGED <<syncVars, file, manifest, loader, agent, procs>>

NextParse == ParseFile \/ EmbedFile

SpecParse == InitParse /\ [][NextParse]_vars

-----------------------------------------------------------------------------
(* Vocabulary of the properties *)

\* the sub-mapping of the active index, read as get_processed_files reads it
Active(m) == IF IndexName \in DOMAIN m THEN m[IndexName] ELSE EmptyMap

\* what the manifest file holds for the active index, as a load reads it
FileActive(f) == Active(LoadManifest(f))

\* the fingerprints of the PDFs now in the folder
OnDiskMap == [p \in AllPdfFiles(docs) |-> Sha256(docs[p])]

CallsOf(op) == {i \in DOMAIN log : log[i].op = op}
AddsFor(b) == {i \in CallsOf("add") : log[i].names = {b}}
ParsesFor(b) == {i \in CallsOf("parse") : log[i].names = {b}}
IndexCalls == CallsOf("delete") \cup CallsOf("add")

\* the diff of the running pass has been computed
Diffed == pc \in {"purge", "parse", "upload", "record", "persist", "done", "raised"}

\* the state right after the diff: the manifest and the folder are those it read
\* the pass returned from the early return of the diff
ShortCircuited == pc = "done" /\ plan = NoPlan

\* the state right after the diff: the manifest and the folder are those it read
JustDiffed == pc = "purge" \/ (ShortCircuited /\ run.touched = {})

\* the pass ran over the EMBED loop to its end
LoopCompleted == pc = "persist" \/ (pc = "done" /\ ~ShortCircuited)

\* a second pass ran to completion right after a completed pass, the folder untouched in between
SecondRunDone ==
    pc = "done" /\ run.pass >= 2 /\ prev.outcome = "done" /\ prev.touched = {}

\* C1 as stated: the second of two passes with no file change in between issues
\* no delete and no add_documents call and leaves the manifest file as it was.
C1_Original ==
    SecondRunDone => IndexCalls = {} /\ file = run.file0

\* C1 amended: as C1, given that the first pass skipped no file for empty parse
\* content and the second pass's inconsistency check did not reset the index;
\* then the second pass does not even parse a file or write the manifest file.
C1_NoOpSecondRun ==
    (SecondRunDone /\ prev.skipped = {} /\ ~run.reset)
        => /\ IndexCalls = {}
           /\ CallsOf("parse") = {}
           /\ run.writes = 0
           /\ file = run.file0

C1_Witness ==
    /\ SecondRunDone /\ prev.skipped = {} /\ ~run.reset
    /\ DOMAIN FileActive(file) = DocPaths
    /\ VectorCount(index) >= 2 * MaxChunks

\* C2: an add_documents failure for one file does not make the pass raise.
C2_FailureConfined ==
    run.failed # {} => pc # "raised"

\* C3: a pass that raised left the manifest file and the index as they were
\* when it started.
C3_RaisedMeansUnchanged ==
    pc = "raised" => file = run.file0 /\ index = run.index0

\* C4: when the manifest loaded at the start of the pass records a file and the
\* index reports zero vectors, the active sub-mapping is empty in memory and in
\* the manifest file before the diff, and the diff classifies every PDF on disk
\* as new.
C4_Precondition ==
    /\ run.stats = "answered"
    /\ GetProcessedFiles(LoadManifest(run.file0)) # {}
    /\ VectorCount(run.index0) = 0

C4_ResetBeforeDiff ==
    C4_Precondition =>
        /\ pc = "diff" =>
              /\ Active(manifest) = EmptyMap
              /\ file = Save(manifest)
              /\ log[Len(log)].op = "save"
        /\ (Diffed /\ run.touched = {}) =>
              /\ plan.new = AllPdfFiles(docs)
              /\ plan.modified = {}
              /\ plan.deleted = {}

C4_Witness ==
    /\ C4_Precondition
    /\ pc = "purge"
    /\ Cardinality(plan.new) = 2
    /\ DOMAIN FileActive(run.file0) = DocPaths

\* C5: a file whose upload failed has its new fingerprint neither in the
\* in-memory manifest nor in the manifest file; the next pass classifies it as
\* new or modified, and its uploads start at the first batch and cover every
\* chunk before the file is recorded.
C5_PartialUploadRetried ==
    /\ \A f \in run.failed \ run.touched :
          /\ GetFileHash(manifest, f) # Sha256(docs[f])
          /\ f \notin DOMAIN FileActive(file) \/ FileActive(file)[f] # Sha256(docs[f])
    /\ \A f \in prev.failed \ prev.touched :
          /\ Diffed => f \in plan.new \cup plan.modified
          /\ \A i \in AddsFor(Basename(f)) :
                (\A j \in AddsFor(Basename(f)) : i <= j) => log[i].off = 0
          /\ (pc = "record" /\ queue[cur.k] = f) =>
                /\ \A i \in AddsFor(Basename(f)) : log[i].ok
                /\ SumOver([i \in DOMAIN log |-> log[i].n], AddsFor(Basename(f))) = cur.n

C5_Witness ==
    /\ \E f \in prev.failed \ prev.touched :
          /\ prev.failedAfter = 2
          /\ pc = "record" /\ queue[cur.k] = f
          /\ Cardinality(AddsFor(Basename(f))) = 3

\* C6: every add_documents call carrying chunks of a modified file comes after
\* a delete request that names the file's base name.
C6_PurgeBeforeEmbed ==
    \A p \in plan.modified : \A j \in AddsFor(Basename(p)) :
        \E i \in CallsOf("delete") : i < j /\ Basename(p) \in log[i].names

C6_Witness ==
    \E p \in plan.modified : AddsFor(Basename(p)) # {} /\ plan.new # {}

\* C7: the diff yields new = on_disk - known, modified = the known files on
\* disk whose recorded fingerprint differs from the current one, deleted =
\* known - on_disk; the sets are pairwise disjoint and an unchanged file is in
\* none of them.
C7_DiffSets ==
    JustDiffed =>
        LET known == DOMAIN Active(manifest)
            onDisk == {p \in DocPaths : docs[p] \in Contents}
        IN /\ plan.new = onDisk \ known
           /\ plan.modified = {f \in known \cap onDisk : Active(manifest)[f] # Sha256(docs[f])}
           /\ plan.deleted = known \ onDisk
           /\ plan.new \cap plan.modified = {}
           /\ plan.new \cap plan.deleted = {}
           /\ plan.modified \cap plan.deleted = {}
           /\ \A f \in known \cap onDisk :
                 Active(manifest)[f] = Sha256(docs[f])
                    => f \notin plan.new \cup plan.modified \cup plan.deleted

C7_Witness ==
    /\ pc = "purge"
    /\ plan.modified # {}
    /\ \E f \in DOMAIN Active(manifest) :
          docs[f] # NoFile /\ Active(manifest)[f] = Sha256(docs[f])

\* C8: after a completed pass without an empty parse result and without a
\* failed delete or upsert, the active sub-mapping is exactly the PDFs on disk,
\* each with the SHA-256 of its bytes, in memory and in the manifest file.
C8_ManifestMatchesDisk ==
    (/\ pc = "done" /\ run.touched = {}
     /\ run.skipped = {}
     /\ \A i \in IndexCalls : log[i].ok)
        => /\ Active(manifest) = OnDiskMap
           /\ FileActive(file) = OnDiskMap

C8_Witness ==
    /\ pc = "done" /\ run.touched = {} /\ run.skipped = {}
    /\ \A i \in IndexCalls : log[i].ok
    /\ plan.new # {} /\ plan.modified # {}
    /\ CallsOf("add") # {}

\* C9: a file whose parse result was empty gets no new fingerprint, the files
\* after it in the loop are still parsed, and the next pass classifies it as
\* new or modified and parses it again.
C9_EmptyParseSkipped ==
    /\ \A f \in run.skipped \ run.touched :
          /\ GetFileHash(manifest, f) # Sha256(docs[f])
          /\ LoopCompleted =>
                f \notin DOMAIN FileActive(file) \/ FileActive(file)[f] # Sha256(docs[f])
    /\ LoopCompleted =>
          \A k \in DOMAIN queue : ParsesFor(Basename(queue[k])) # {}
    /\ \A f \in prev.skipped \ prev.touched :
          /\ Diffed => f \in plan.new \cup plan.modified
          /\ LoopCompleted => ParsesFor(Basename(f)) # {}

C9_Witness ==
    /\ \E f \in prev.skipped \ prev.touched :
          /\ pc = "done"
          /\ f \in plan.modified
          /\ Len(queue) = 2 /\ queue[2] = f
          /\ \E i \in ParsesFor(Basename(f)) : log[i].ok
    /\ prev.outcome = "done"

\* C10: the files covered by a failed purge request are classified as modified
\* or deleted by the next pass, which purges them again.
C10_FailedPurgeRetried ==
    \A f \in prev.purgeFailed \ prev.touched :
        (Diffed /\ prev.outcome = "done")
            => /\ f \in plan.modified \cup plan.deleted
               /\ \E i \in CallsOf("delete") : Basename(f) \in log[i].names

\* C11: a pass that scans a missing docs folder aborts with an error and has
\* mutated nothing: no delete request, no manifest entry removed, no write of
\* the manifest file.
C11_MissingFolderAborts ==
    (~folder /\ Diffed /\ run.touched = {})
        => /\ pc = "raised"
           /\ CallsOf("delete") = {}
           /\ GetProcessedFiles(manifest) = GetProcessedFiles(LoadManifest(run.file0))
           /\ file = run.file0

\* the sub-mappings of the indices other than the active one
Others(m) == [x \in DOMAIN m \ {IndexName} |-> m[x]]

\* C15: during and after a pass the sub-mappings of all other indices are, in
\* memory and in the manifest file, what they were when the pass started.
C15_OtherIndicesKept ==
    run.pass >= 1 =>
        /\ Others(manifest) = Others(run.file0.data)
        /\ Others(file.data) = Others(run.file0.data)

C15_Witness ==
    /\ pc = "done"
    /\ run.reset /\ run.writes = 2
    /\ OtherIndex \in DOMAIN file.data
    /\ plan.new # {}
    /\ \E p \in DOMAIN run.file0.data[IndexName] : p \notin DOMAIN Active(file.data)

\* C20: when describe_index_stats raised, the pass is at the diff with nothing
\* reset: the in-memory manifest is the loaded one and the manifest file was
\* not written; the pass did not end by that error.
C20_StatsErrorContinues ==
    run.stats = "raised" =>
        /\ ~run.reset
        /\ pc \in {"diff", "purge", "parse", "upload", "record", "persist", "done", "raised"}
        /\ pc = "raised" => run.failed # {}
        /\ pc = "diff" =>
              /\ manifest = LoadManifest(run.file0)
              /\ file = run.file0
              /\ run.writes = 0

C20_Witness ==
    /\ run.stats = "raised"
    /\ pc = "diff"
    /\ GetProcessedFiles(manifest) # {}
    /\ VectorCount(index) = 0

\* the branch the last load took
LastPath == loader.paths[Len(loader.paths)]

\* C12: a load that migrated a legacy file returns the old content unchanged
\* under "carbon-rag" and an empty sub-mapping for the current index, whatever
\* the current index name, and has written exactly that to the manifest file.
C12_MigrationKeepsLegacy ==
    (loader.loads >= 1 /\ LastPath = "migrated") =>
        /\ OtherIndex \in DOMAIN manifest
        /\ manifest[OtherIndex] = loader.file0.flat
        /\ loader.name \in DOMAIN manifest
        /\ manifest[loader.name] = EmptyMap
        /\ file = Save(manifest)

\* C13: a load that follows another load of the same file does not take the
\* migration branch and does not write the file, and every sub-mapping of the
\* file is returned as it is, next to the current index's.
C13_MigrationOnce ==
    loader.loads >= 2 =>
        /\ LastPath # "migrated"
        /\ file = loader.file0
        /\ DOMAIN manifest = DOMAIN loader.file0.data \cup {loader.name}
        /\ \A x \in DOMAIN loader.file0.data : manifest[x] = loader.file0.data[x]

C13_Witness ==
    /\ loader.loads = 2
    /\ loader.paths[1] = "migrated"
    /\ LastPath = "loaded"
    /\ manifest[OtherIndex] # EmptyMap

\* the file is missing, malformed JSON, or has an empty top level
C14_Precondition ==
    \/ ~loader.file0.exists
    \/ loader.file0.kind = "corrupt"
    \/ loader.file0.kind = "ns" /\ loader.file0.data = NoManifest

-----------------------------------------------------------------------------
\* C16: cleaning is idempotent: _clean_text applied to a text it has already
\* cleaned returns that text unchanged.
C16_CleanIdempotent ==
    pure.step = "recleaned" => pure.z = pure.y

\* C17 as stated: whenever the cleaned text is shorter than chunk_size,
\* _get_document_splits returns exactly one chunk and its content is the
\* cleaned text.
C17_Original ==
    (pure.step = "split" /\ Len(CleanText(pure.x)) < pure.chunk_size)
        => /\ Len(pure.chunks) = 1
           /\ pure.chunks[1].page_content = CleanText(pure.x)

\* C17: whenever the cleaned text is not empty and shorter than chunk_size,
\* _get_document_splits returns exactly one chunk and its content is the
\* cleaned text.
C17_ShortTextOneChunk ==
    (/\ pure.step = "split"
     /\ CleanText(pure.x) # <<>>
     /\ Len(CleanText(pure.x)) < pure.chunk_size)
        => /\ Len(pure.chunks) = 1
           /\ pure.chunks[1].page_content = CleanText(pure.x)

\* a text of several words, shorter than the short chunk size, has been split
C17_Witness ==
    /\ pure.step = "split"
    /\ pure.chunk_size = ShortChunkSize
    /\ Len(CleanText(pure.x)) < pure.chunk_size
    /\ Occurs(CleanText(pure.x), <<" ">>)
    /\ Len(pure.chunks) = 1

-----------------------------------------------------------------------------
\* the agent has what it needs to invoke its chain or its llm
Available(a) == IF a.variant = "doc_agent" THEN a.rag_chain ELSE a.llm

\* C18: for every question and every state of the agent, ask returns a string
\* and never raises: an agent without chain or llm answers with the message of
\* its unavailability, a failing invocation is answered with a failure
\* message.
C18_AskReturnsString ==
    \A i \in 1..Len(agent.calls) :
        LET c == agent.calls[i]
        IN /\ ~c.result.raised
           /\ c.result.type = "str"
           /\ (~Available(agent) \/ c.outcome = "error") => c.result.text \in FailureMessages
           /\ (Available(agent) /\ c.outcome # "error")
                  => c.result.text = TextOf(c.question, c.outcome)

\* an invocation has failed with a failure message for an answer, and the
\* agent has answered the question asked after it
C18_Witness ==
    /\ Available(agent)
    /\ Len(agent.calls) = MaxAsks
    /\ agent.calls[1].outcome = "error"
    /\ agent.calls[1].result.text = ErrorMessage
    /\ agent.calls[MaxAsks].outcome # "error"

-----------------------------------------------------------------------------
\* both passes are over, each has saved, and q saved last
BothSaved(p, q) ==
    /\ p # q
    /\ procs.agents[p].pc = "done" /\ procs.agents[p].saved
    /\ procs.agents[q].pc = "done" /\ procs.agents[q].saved
    /\ procs.writer = q

\* the file lacks the fingerprint that pass p recorded and saved for a PDF
\* still in the folder
LostFingerprint ==
    \E p \in Procs, q \in Procs :
        /\ BothSaved(p, q)
        /\ \E f \in procs.agents[p].recorded :
             /\ docs[f] # NoFile
             /\ f \in GetProcessedFiles(procs.agents[p].manifest)
             /\ f \notin GetProcessedFiles(file.data)

\* the file holds again the entry that pass p removed and saved for a PDF no
\* longer in the folder
ResurrectedEntry ==
    \E p \in Procs, q \in Procs :
        /\ BothSaved(p, q)
        /\ \E f \in procs.agents[p].plan.deleted :
             /\ docs[f] = NoFile
             /\ f \in GetProcessedFiles(file.data)

\* C19: the saves of two concurrent passes are not serialised or merged: the
\* manifest file always holds exactly the manifest of the pass that saved
\* last, whatever another pass had saved before.
C19_LastWriterWins ==
    procs.writer # 0 =>
        /\ file.exists
        /\ file.kind = "ns"
        /\ file.data = procs.written

\* the later save has overwritten the earlier one and a fingerprint is lost
C19_Witness ==
    /\ LostFingerprint
    /\ file.data = procs.written

-----------------------------------------------------------------------------
\* the delete request of the running pass raised
DeleteFailed == \E i \in CallsOf("delete") : ~log[i].ok

\* C21: after a delete request that raised, the pass is in its EMBED loop or
\* past it and has not ended by that error; the deleted files' entries are gone
\* from the manifest; once the loop is over every file of new and modified has
\* been handed to the parser, and the pass ends with a save of the manifest.
C21_DeleteErrorSwallowed ==
    DeleteFailed =>
        /\ pc \in {"parse", "upload", "record", "persist", "done", "raised"}
        /\ pc = "raised" => run.failed # {}
        /\ GetProcessedFiles(manifest) \cap plan.deleted = {}
        /\ LoopCompleted =>
              \A f \in plan.new \cup plan.modified : ParsesFor(Basename(f)) # {}
        /\ pc = "done" =>
              /\ log[Len(log)].op = "save"
              /\ file = Save(manifest)

C21_Witness ==
    /\ DeleteFailed
    /\ pc = "done"
    /\ plan.deleted # {}
    /\ plan.new \cup plan.modified # {}
    /\ CallsOf("add") # {}

-----------------------------------------------------------------------------
\* what the manifest file holds from the diff of the running pass until its
\* final save: the file the pass found, or the reset manifest
FileBeforeFinalSave ==
    IF run.reset THEN Save(ResetIndex(LoadManifest(run.file0))) ELSE run.file0

\* C22: a pass writes the manifest file right after an inconsistency reset and
\* once more after the EMBED loop, and nowhere else: from the diff until the
\* final save the file is the one the pass found (or the reset one), whatever
\* was removed or recorded in memory.
C22_WritesOnlyAtResetAndEnd ==
    run.pass >= 1 =>
        /\ run.writes = Cardinality(CallsOf("save"))
        /\ \A i \in CallsOf("save") :
              \/ run.reset /\ i = 2 /\ log[1].op = "stats"
              \/ pc = "done" /\ i = Len(log)
        /\ pc \in {"diff", "purge", "parse", "upload", "record", "persist", "raised"}
              => file = FileBeforeFinalSave

\* the loop is over, an entry was removed and a fingerprint recorded in memory,
\* and the file holds neither change
C22_Witness ==
    /\ pc = "persist"
    /\ plan.deleted # {}
    /\ \E f \in plan.new : f \in GetProcessedFiles(manifest)
    /\ \E f \in plan.deleted : f \in GetProcessedFiles(file.data)
    /\ \A f \in plan.new : f \notin GetProcessedFiles(file.data)

-----------------------------------------------------------------------------
\* the manifest as the diff of the running pass read it
ManifestAtDiff ==
    IF run.reset THEN ResetIndex(LoadManifest(run.file0)) ELSE LoadManifest(run.file0)

\* C23: a pass whose diff found new, modified and deleted all empty has ended
\* there: it issued no delete, parse or add_documents call, its in-memory
\* manifest is the one the diff read, and the manifest file was not written
\* from the diff on.
C23_ShortCircuit ==
    ShortCircuited =>
        /\ CallsOf("delete") = {}
        /\ CallsOf("parse") = {}
        /\ CallsOf("add") = {}
        /\ manifest = ManifestAtDiff
        /\ file = FileBeforeFinalSave
        /\ run.writes = IF run.reset THEN 1 ELSE 0

\* an unchanged folder of two recorded PDFs
C23_Witness ==
    /\ ShortCircuited
    /\ run.touched = {}
    /\ GetProcessedFiles(manifest) = DocPaths
    /\ AllPdfFiles(docs) = DocPaths

-----------------------------------------------------------------------------
\* the values of source_file the Documents carry
SourceFiles(documents) == {documents[i].source_file : i \in DOMAIN documents}

\* C24: the chunks uploaded for a file carry source_file equal to the file's
\* base name, every delete request filters on the base names of the modified
\* and deleted files, and so the key the chunks of a modified file are stored
\* under is among the keys its purge filtered on.
C24_PurgeKeyIsUploadKey ==
    /\ \A i \in CallsOf("delete") :
          log[i].names = {Basename(f) : f \in plan.modified \cup plan.deleted}
    /\ (pc \in {"upload", "record"} /\ cur.i > 0) =>
          LET f == queue[cur.k]
              last == log[Len(log)]
              documents == GetDocumentSplits(<<"a", " ", "b">>, UploadKey(f),
                                             ChunkSize, ChunkOverlap)
          IN /\ last.op = "add"
             /\ last.names = {Basename(f)}
             /\ SourceFiles(documents) = last.names
             /\ f \in plan.modified =>
                   /\ CallsOf("delete") # {}
                   /\ \A i \in CallsOf("delete") : last.names \subseteq log[i].names

\* the chunks of a modified file have been uploaded after a purge that covered
\* a deleted file as well
C24_Witness ==
    /\ pc = "record"
    /\ cur.i > 0
    /\ queue[cur.k] \in plan.modified
    /\ plan.deleted # {}

-----------------------------------------------------------------------------
\* C25: once the loop of a pass is over, the fingerprint recorded for every
\* file the pass parsed and uploaded is the SHA-256 of the bytes it was parsed
\* from, also when the file was written again while the pass was running.
C25_FingerprintOfParsedBytes ==
    (LoopCompleted /\ run.touched = {}) =>
        \A f \in DOMAIN run.parsed : GetFileHash(manifest, f) = Sha256(run.parsed[f])

-----------------------------------------------------------------------------
\* C26: at the end of a completed pass whose delete and add_documents calls all
\* succeeded, every file recorded for the active index has at least one vector
\* in the index under its base name.
C26_RecordedHasVectors ==
    (pc = "done" /\ run.touched = {} /\ \A i \in IndexCalls : log[i].ok)
        => \A f \in GetProcessedFiles(manifest) : index[Basename(f)] > 0

\* C27: whenever the first batch of a file's chunks is about to be uploaded,
\* the index holds no vector under the file's base name.
C27_NoUploadOverOldVectors ==
    (pc = "upload" /\ cur.i = 0) => index[Basename(queue[cur.k])] = 0

-----------------------------------------------------------------------------
\* C28: after a completed pass every path recorded for the active index, in
\* memory and in the manifest file, is a PDF the pass's scan of the folder
\* found.
C28_RecordedWereScanned ==
    (pc = "done" /\ run.touched = {}) =>
        /\ GetProcessedFiles(manifest) \subseteq ScanFolder(folder, docs)
        /\ DOMAIN FileActive(file) \subseteq ScanFolder(folder, docs)

\* a pass has completed that found a recorded file gone and another one still
\* there, and whose delete request raised
C28_Witness ==
    /\ pc = "done" /\ run.touched = {}
    /\ plan.deleted # {}
    /\ DeleteFailed
    /\ GetProcessedFiles(manifest) # {}

-----------------------------------------------------------------------------
\* C29: a file is recorded only if the parsing request failed for none of its
\* page batches.
C29_RecordedMeansAllBatchesParsed ==
    (pure.step = "embedded" /\ pure.recorded)
        => \A k \in DOMAIN pure.outcomes : pure.outcomes[k] # "request_error"

-----------------------------------------------------------------------------
\* the recorded files the running pass found unchanged
Unchanged == GetProcessedFiles(manifest) \ (plan.new \cup plan.modified \cup plan.deleted)

\* C30: starting from an empty manifest, no two paths recorded for the active
\* index have the same base name, and no delete request names the base name of
\* a recorded file that the pass found unchanged.
C30_NoBaseNameClash ==
    /\ \A f \in GetProcessedFiles(manifest) : \A g \in GetProcessedFiles(manifest) :
          Basename(f) = Basename(g) => f = g
    /\ \A i \in CallsOf("delete") : \A g \in Unchanged : Basename(g) \notin log[i].names

\* a pass has purged one file while another stayed recorded as unchanged, and
\* a PDF of that other file's base name lies in a folder below docs
C30_Witness ==
    /\ pc = "done"
    /\ CallsOf("delete") # {}
    /\ NestedPath \in DOMAIN docs
    /\ docs[NestedPath] # NoFile
    /\ \E g \in Unchanged : Basename(g) = Basename(NestedPath)

====
